---------------------------- MODULE Spec2Model ----------------------------
(***************************************************************************)
(* A model of bin/user/digiwx.py: the DigiWX serial station                *)
(* (DigiWXStation), its retrying reader, its line parser, the weewx driver *)
(* built on it (DigiWXDriver) and the standalone diagnostic loop.          *)
(*                                                                         *)
(* Python values are tagged records, so that None, integers, floats,       *)
(* handles and unbound names can be compared with one another.  A string   *)
(* is a sequence of one-character strings, so that split, strip, int() and *)
(* float() are computed character by character as Python computes them     *)
(* (what readline() hands back is a str, the type for which line 218's     *)
(* ord(c) and line 247's split(',') are defined).                          *)
(***************************************************************************)
EXTENDS Integers, Sequences, FiniteSets, TLC

(***************************************************************************)
(* Bounds of the model.                                                    *)
(***************************************************************************)
\* the largest value the retry budget max_tries is drawn from
MaxTries == 3
\* the number of get_current calls one run may start
MaxCycles == 3
\* the number of transport handles serial.Serial() may hand out in one run
MaxHandles == 2

(***************************************************************************)
(* Python values.                                                          *)
(***************************************************************************)
None == [t |-> "None"]
Unbound == [t |-> "unbound"]
PyInt(n) == [t |-> "int", v |-> n]
\* a finite float m * 10^e, m without a trailing decimal zero
PyFloat(m, e) == [t |-> "float", m |-> m, e |-> e]
PyFloatSpecial(k) == [t |-> "float", special |-> k]
Handle(h) == [t |-> "Serial", id |-> h]
\* a str, its characters in s
PyStr(s) == [t |-> "str", s |-> s]
\* a truth test that only asks whether a value is there
TruthyNotNone(v) == v # None
\* the truth value the if statement takes of a str or None
Truthy(v) == v # None /\ v # PyStr(<<>>)

(***************************************************************************)
(* Characters and strings.                                                 *)
(***************************************************************************)
CR == "CR"
LF == "LF"
Digits == <<"0", "1", "2", "3", "4", "5", "6", "7", "8", "9">>
IsDigit(c) == \E i \in 1..10 : Digits[i] = c
DigitVal(c) == (CHOOSE i \in 1..10 : Digits[i] = c) - 1
\* the characters str.strip(), int() and float() treat as whitespace
IsSpace(c) == c \in {" ", "TAB", LF, CR, "VT", "FF"}
IsSign(c) == c \in {"+", "-"}
Lower(c) ==
    CASE c = "N" -> "n" [] c = "A" -> "a" [] c = "I" -> "i" [] c = "F" -> "f"
      [] c = "T" -> "t" [] c = "Y" -> "y" [] c = "E" -> "e" [] OTHER -> c

RECURSIVE LStrip(_)
LStrip(s) == IF s # <<>> /\ IsSpace(Head(s)) THEN LStrip(Tail(s)) ELSE s
RECURSIVE RStrip(_)
RStrip(s) ==
    IF s # <<>> /\ IsSpace(s[Len(s)]) THEN RStrip(SubSeq(s, 1, Len(s) - 1)) ELSE s
\* str.strip()
strip(s) == RStrip(LStrip(s))

\* the members of a set of integers in increasing order
RECURSIVE Ascending(_)
Ascending(S) ==
    IF S = {} THEN <<>>
    ELSE LET m == CHOOSE x \in S : \A y \in S : x <= y
         IN  <<m>> \o Ascending(S \ {m})

\* str.split(sep) for a one-character sep: the parts between the
\* separators, always at least one part
split(s, sep) ==
    LET seps == Ascending({i \in 1..Len(s) : s[i] = sep})
        \* the position of the k-th separator; 0 and Len(s) + 1 bracket them
        pos(k) == IF k = 0 THEN 0
                  ELSE IF k > Len(seps) THEN Len(s) + 1
                  ELSE seps[k]
    IN  [k \in 1..(Len(seps) + 1) |-> SubSeq(s, pos(k - 1) + 1, pos(k) - 1)]

\* sep.join(parts)
RECURSIVE join(_, _)
join(parts, sep) ==
    IF parts = <<>> THEN <<>>
    ELSE IF Len(parts) = 1 THEN parts[1]
    ELSE parts[1] \o <<sep>> \o join(Tail(parts), sep)

AllDigits(s) == \A i \in 1..Len(s) : IsDigit(s[i])
RECURSIVE DigitsVal(_, _)
DigitsVal(s, acc) ==
    IF s = <<>> THEN acc ELSE DigitsVal(Tail(s), 10 * acc + DigitVal(Head(s)))

(***************************************************************************)
(* int(s) and float(s) on a string: ValueError is the value ValueError.    *)
(***************************************************************************)
ValueError == [t |-> "exc", exc |-> "ValueError"]
Unsigned(s) == IF s # <<>> /\ IsSign(s[1]) THEN Tail(s) ELSE s
SignOf(s) == IF s # <<>> /\ s[1] = "-" THEN -1 ELSE 1

\* int(s): optional whitespace, optional sign, one or more decimal digits
int(s) ==
    LET body == Unsigned(strip(s))
    IN  IF body # <<>> /\ AllDigits(body)
        THEN PyInt(SignOf(strip(s)) * DigitsVal(body, 0))
        ELSE ValueError

\* the index of the first c in s, or 0
FirstIndex(s, c) ==
    IF \E i \in 1..Len(s) : s[i] = c
    THEN CHOOSE i \in 1..Len(s) : s[i] = c /\ \A j \in 1..(i - 1) : s[j] # c
    ELSE 0
RECURSIVE NormFloat(_, _)
NormFloat(m, e) ==
    IF m = 0 THEN PyFloat(0, 0)
    ELSE IF m % 10 = 0 THEN NormFloat(m \div 10, e + 1)
    ELSE PyFloat(m, e)
LowerStr(s) == [i \in 1..Len(s) |-> Lower(s[i])]

\* float(s): optional whitespace, optional sign, then inf, infinity, nan, or
\* digits with at most one point and an optional exponent
float(s) ==
    LET t    == strip(s)
        sg   == SignOf(t)
        body == LowerStr(Unsigned(t))
        ePos == FirstIndex(body, "e")
        mant == IF ePos = 0 THEN body ELSE SubSeq(body, 1, ePos - 1)
        expS == IF ePos = 0 THEN <<>> ELSE SubSeq(body, ePos + 1, Len(body))
        expOk == ePos = 0 \/ (Unsigned(expS) # <<>> /\ AllDigits(Unsigned(expS)))
        expV == IF ePos = 0 \/ ~expOk THEN 0
                ELSE SignOf(expS) * DigitsVal(Unsigned(expS), 0)
        pPos == FirstIndex(mant, ".")
        ip   == IF pPos = 0 THEN mant ELSE SubSeq(mant, 1, pPos - 1)
        fp   == IF pPos = 0 THEN <<>> ELSE SubSeq(mant, pPos + 1, Len(mant))
        mantOk == AllDigits(ip) /\ AllDigits(fp) /\ Len(ip) + Len(fp) > 0
    IN  IF body \in {<<"i", "n", "f">>, <<"i", "n", "f", "i", "n", "i", "t", "y">>}
        THEN PyFloatSpecial(IF sg = 1 THEN "inf" ELSE "-inf")
        ELSE IF body = <<"n", "a", "n">> THEN PyFloatSpecial("nan")
        ELSE IF mantOk /\ expOk
        THEN NormFloat(sg * DigitsVal(ip \o fp, 0), expV - Len(fp))
        ELSE ValueError

(***************************************************************************)
(* Exceptions, objects and attribute lookup.                               *)
(***************************************************************************)
Exc(name) == [t |-> "exc", exc |-> name]
IsExc(v) == "exc" \in DOMAIN v
\* obj.name: an instance holds exactly the attributes __init__ assigned
getattr(obj, name) ==
    IF name \in DOMAIN obj THEN obj[name] ELSE Exc("AttributeError")
\* a[i] on a Python list of str, i >= 0
Index(a, i) == IF i < Len(a) THEN PyStr(a[i + 1]) ELSE Exc("IndexError")
\* d.get(k) on a Python dict
get(d, k) == IF k \in DOMAIN d THEN d[k] ELSE None
\* d[k] on a Python dict
Item(d, k) == IF k \in DOMAIN d THEN d[k] ELSE Exc("KeyError")

(***************************************************************************)
(* DigiWXStation.parse_int, parse_float, parse_current.                    *)
(***************************************************************************)
\* a parse_int that answers a bad token with a default
parse_intDefault(s) == IF int(s.s) = ValueError THEN PyInt(0) ELSE int(s.s)
parse_int(s) == IF int(s.s) = ValueError THEN None ELSE int(s.s)

parse_float(s) == IF float(s.s) = ValueError THEN None ELSE float(s.s)

\* the indices parse_current reads, in the order the dict display reads them
ConsumedIndices == <<1, 21, 3, 4, 5, 8>>

\* a parse_current that takes the dewpoint where the field table puts it
parse_currentField2(s) ==
    LET parts == split(s.s, ",")
    IN  IF \E i \in {1, 2, 3, 4, 5, 8} : IsExc(Index(parts, i))
        THEN Exc("IndexError")
        ELSE [temperature |-> parse_int(Index(parts, 1)),
              dewpoint    |-> parse_int(Index(parts, 2)),
              humidity    |-> parse_int(Index(parts, 3)),
              wind_dir    |-> parse_int(Index(parts, 4)),
              wind_speed  |-> parse_int(Index(parts, 5)),
              pressure    |-> parse_float(Index(parts, 8))]

parse_current(s) ==
    LET parts == split(s.s, ",")
    IN  IF \E k \in 1..Len(ConsumedIndices) :
               IsExc(Index(parts, ConsumedIndices[k]))
        THEN Exc("IndexError")
        ELSE [temperature |-> parse_int(Index(parts, 1)),
              dewpoint    |-> parse_int(Index(parts, 21)),
              humidity    |-> parse_int(Index(parts, 3)),
              wind_dir    |-> parse_int(Index(parts, 4)),
              wind_speed  |-> parse_int(Index(parts, 5)),
              pressure    |-> parse_float(Index(parts, 8))]

(***************************************************************************)
(* Lines.  SampleTokens is the second sample of the module docstring.      *)
(***************************************************************************)
SampleTokens == <<
    <<"D","W">>, <<"-","0","0","4">>, <<"-","0","1","3">>, <<"0","5","3">>,
    <<"2","9","0">>, <<"0","0","0">>, <<"9","9","9">>, <<"9","9","9">>,
    <<"3","0",".","0","7">>, <<"+","9","9","9","9","9">>,
    <<"+","0","4","2","0","0">>, <<"0","0","4">>, <<"0","0","0">>,
    <<"0","0","1">>, <<"0","0","0">>, <<"0","0","0">>, <<"4","4">>,
    <<"0","4",".","2","2">>, <<"N">>, <<"0","6","8">>,
    <<"4","9",".","1","0">>, <<"W">>, <<"M","E","5","5"," ">>,
    <<"V","I","N","A","L","H","A","V","E","N">>,
    <<"1","2","2",".","7","0","0","0">>, <<"0","0">>, <<"U">>,
    <<"0","0","0">>, <<"9","9","9">>, <<"9","9","9">>, <<"+","0","2","4">>,
    <<"+","0","0","9">>, <<"1","0">>, <<"N","A">>, <<"N","A">>,
    <<"0","0","0","0","0","0">>, <<"1","5","9">>, <<"0","1","0","2","4">>,
    <<"0","0">>, <<"0">>, <<"9","9","9","9","9">>, <<"9","9","9","9","9">>,
    <<"9","9","9","9","9">>, <<"0">>, <<"C","L","R">>, <<"9","9","9">>,
    <<"C","L","R">>, <<"9","9","9">>, <<"C","L","R">>, <<"9","9","9">>,
    <<"C","L","R">>, <<"9","9","9">>, <<"7","7">> >>
SampleLine == join(SampleTokens, ",")
\* tokens put in place of a sample token
TokenPool ==
    { <<"N", "A">>, <<"X", "Y", "Z">>, <<>>, <<"-", "0", "1", "2">>,
      <<"2", "9", ".", "9", "8">>, <<" ", "7">>, <<"n", "a", "n">> }
Replaced(tokens, i, tok) == [tokens EXCEPT ![i + 1] = tok]
\* the sample with a number in field 21, and with the sentinel NA in each
\* field of S
NumericTokens == Replaced(SampleTokens, 21, <<"-", "0", "1", "3">>)
WithSentinels(S) ==
    [k \in 1..Len(NumericTokens) |->
       IF (k - 1) \in S THEN <<"N", "A">> ELSE NumericTokens[k]]
\* the lines parse_current is applied to: every prefix of the sample (the
\* empty line first), the sample with one token replaced, and the lines
\* with sentinels in any set of the fields read
VariedIndices == {1, 2, 3, 4, 5, 8, 21, 22}
ParseLines ==
    { PyStr(join(SubSeq(SampleTokens, 1, n), ",")) :
        n \in 0..Len(SampleTokens) }
    \cup { PyStr(join(Replaced(SampleTokens, i, tok), ",")) :
             i \in VariedIndices, tok \in TokenPool }
    \cup { PyStr(join(WithSentinels(S), ",")) :
             S \in SUBSET {1, 3, 4, 5, 8, 21} }
\* what serial_port.readline() may hand back: nothing (a timeout), a bare
\* line terminator, the sample, a truncated line, a line with a sentinel
WireLines ==
    { <<>>,
      <<CR, LF>>,
      SampleLine \o <<CR, LF>>,
      join(SubSeq(SampleTokens, 1, 9), ",") \o <<CR, LF>>,
      join(Replaced(SampleTokens, 8, <<"N", "A">>), ",") \o <<CR, LF>> }
Ports == {"/dev/ttyS0", "/dev/ttyUSB0"}

(***************************************************************************)
(* State.                                                                  *)
(***************************************************************************)
VARIABLES
    mode,          \* who runs the module: "driver" (the weewx engine),
                   \* "main" (the __main__ block), "api" (a caller of the
                   \* station's methods), "parse" (a caller of parse_current)
    g_max_tries,   \* the module-global name max_tries: Unbound or a value
    g_retry_wait,  \* the module-global name retry_wait: Unbound or a value
    station,       \* the DigiWXStation instance's attributes set by
                   \* __init__ (serial_port apart), or None
    serial_port,   \* station.serial_port: None or a handle
    last_rain,     \* driver.last_rain
    nopened,       \* handles serial.Serial() has handed out
    closes,        \* per handle, the calls of its close()
    pc,            \* the position of the running code
    exc,           \* the exception in flight or that ended the code
    ntries,        \* get_data_with_retry's loop variable
    buf,           \* get_data_with_retry's local buf
    attempts,      \* calls of get_data in the current get_data_with_retry
    delays,        \* calls of time.sleep in the current get_data_with_retry
    log,           \* loginf/logerr records of the current get_data_with_retry
    raw,           \* what get_current last returned
    cycles,        \* get_current calls started
    got,           \* driver: the non-empty lines get_current returned
    packets,       \* driver: the packets genLoopPackets yielded
    parse_arg,     \* the argument of the last direct parse_current call
    parsed,        \* its result
    op,            \* the operation the last step belongs to
    port_before    \* serial_port as the last open() or close() found it

vars == <<mode, g_max_tries, g_retry_wait, station, serial_port, last_rain,
          nopened, closes, pc, exc, ntries, buf, attempts, delays, log, raw,
          cycles, got, packets, parse_arg, parsed, op, port_before>>

envVars == <<mode, g_max_tries, g_retry_wait>>
callVars == <<ntries, buf, attempts, delays, log>>
parseVars == <<parse_arg, parsed>>
portVars == <<serial_port, nopened, closes, port_before>>
loopVars == <<got, packets, last_rain>>

(***************************************************************************)
(* The module as loaded.  Lines 194-195 read the names max_tries and       *)
(* retry_wait, which the module binds nowhere: as the source stands they   *)
(* are Unbound.  A station exists only in a process whose module namespace *)
(* binds both, so Init draws each binding.                                 *)
(***************************************************************************)
Init ==
    /\ mode \in {"driver", "main", "api", "parse"}
    /\ g_max_tries \in {Unbound} \cup {PyInt(n) : n \in 0..MaxTries}
    /\ g_retry_wait \in {Unbound, PyInt(1)}
    /\ station = None
    /\ serial_port = None
    /\ last_rain = None
    /\ nopened = 0
    /\ closes = [h \in 1..MaxHandles |-> 0]
    /\ pc = "start"
    /\ exc = "none"
    /\ ntries = 0
    /\ buf = None
    /\ attempts = 0
    /\ delays = 0
    /\ log = <<>>
    /\ raw = None
    /\ cycles = 0
    /\ got = <<>>
    /\ packets = <<>>
    /\ parse_arg = None
    /\ parsed = None
    /\ op = "load"
    /\ port_before = None

(***************************************************************************)
(* DigiWXStation.__init__, open, close.                                    *)
(***************************************************************************)
\* DigiWXStation(port): the instance's attributes, or the NameError of an
\* unbound global
DigiWXStation(port) ==
    IF g_max_tries = Unbound \/ g_retry_wait = Unbound
    THEN Exc("NameError")
    ELSE [port |-> port, baudrate |-> 19200, timeout |-> 3,
          max_tries |-> g_max_tries.v, retry_wait |-> g_retry_wait.v]

\* open(): serial.Serial(...) hands out a new handle (ok) or raises
\* SerialException before serial_port is assigned
open(ok) ==
    /\ port_before' = serial_port
    /\ IF ok
       THEN /\ nopened' = nopened + 1
            /\ serial_port' = Handle(nopened + 1)
            /\ UNCHANGED closes
       ELSE UNCHANGED <<serial_port, nopened, closes>>

\* close() that closes the handle and forgets to unset serial_port
closeKeepsHandle ==
    /\ port_before' = serial_port
    /\ IF serial_port # None
       THEN /\ closes' = [closes EXCEPT ![serial_port.id] = @ + 1]
            /\ UNCHANGED <<serial_port, nopened>>
       ELSE UNCHANGED <<serial_port, nopened, closes>>

close ==
    /\ port_before' = serial_port
    /\ IF serial_port # None
       THEN /\ closes' = [closes EXCEPT ![serial_port.id] = @ + 1]
            /\ serial_port' = None
            /\ UNCHANGED nopened
       ELSE UNCHANGED <<serial_port, nopened, closes>>

\* serial.Serial() can raise at any time; it can succeed while handles last
OpenOutcomes == {FALSE} \cup (IF nopened < MaxHandles THEN {TRUE} ELSE {})

(***************************************************************************)
(* DigiWXDriver: __init__, closePort, genLoopPackets, _data_to_packet.     *)
(***************************************************************************)
\* DigiWXDriver(**stn_dict): port is stn_dict.get('port', DEFAULT_PORT)
DriverInit ==
    /\ mode = "driver" /\ pc = "start"
    /\ \E port \in Ports, ok \in OpenOutcomes :
         LET st == DigiWXStation(port)
         IN  /\ last_rain' = None
             /\ IF IsExc(st)
                THEN /\ exc' = st.exc /\ pc' = "dead"
                     /\ UNCHANGED <<station, portVars>>
                ELSE /\ station' = st
                     /\ open(ok)
                     /\ exc' = IF ok THEN "none" ELSE "SerialException"
                     /\ pc' = IF ok THEN "idle" ELSE "dead"
    /\ op' = "DriverInit"
    /\ UNCHANGED <<envVars, callVars, raw, cycles, got, packets, parseVars>>

closePort ==
    /\ mode = "driver" /\ pc \in {"idle", "ended"}
    /\ close
    /\ op' = "close"
    /\ UNCHANGED <<envVars, station, last_rain, pc, exc, callVars, raw,
                   cycles, got, packets, parseVars>>

\* the engine advances the generator: it runs from its start, or from the
\* yield, to the top of the while loop
GenNext ==
    /\ mode = "driver" /\ pc = "idle"
    /\ pc' = "read"
    /\ op' = "genLoopPackets"
    /\ UNCHANGED <<envVars, station, portVars, exc, callVars, raw, cycles,
                   loopVars, parseVars>>

\* weewx.wxformulas.calculate_rain, the host's helper: unset when either
\* total is, otherwise the host's delta of the two
calculate_rain(newtotal, oldtotal) ==
    IF newtotal = None \/ oldtotal = None THEN None
    ELSE [t |-> "delta", new |-> newtotal, old |-> oldtotal]

\* _data_to_packet(data): the packet and the new last_rain, or the KeyError
\* of data['rain_total']
data_to_packet(data, lastRain) ==
    IF IsExc(Item(data, "rain_total"))
    THEN Item(data, "rain_total")
    ELSE [pkt |-> [dateTime    |-> "now",
                   usUnits     |-> "US",
                   windDir     |-> get(data, "wind_dir"),
                   windSpeed   |-> get(data, "wind_speed"),
                   inTemp      |-> get(data, "temperature_in"),
                   outTemp     |-> get(data, "temperature_out"),
                   outHumidity |-> get(data, "humidity"),
                   pressure    |-> get(data, "pressure"),
                   rain        |-> calculate_rain(Item(data, "rain_total"),
                                                  lastRain)],
          last_rain |-> Item(data, "rain_total")]

\* a loop body that stores the rain total, 0 when the record has none,
\* before it builds the packet
LoopBodyRainFirst ==
    /\ mode = "driver" /\ pc = "ret"
    /\ IF ~Truthy(raw)
       THEN /\ pc' = "read"
            /\ UNCHANGED <<exc, loopVars>>
       ELSE LET data == parse_current(raw)
                res  == data_to_packet(data, last_rain)
            IN  /\ got' = Append(got, raw)
                /\ IF IsExc(data)
                   THEN /\ exc' = data.exc /\ pc' = "ended"
                        /\ UNCHANGED <<packets, last_rain>>
                   ELSE IF IsExc(res)
                   THEN /\ exc' = res.exc /\ pc' = "ended"
                        /\ last_rain' = PyInt(0)
                        /\ UNCHANGED packets
                   ELSE /\ packets' = Append(packets, [packet |-> res.pkt,
                                                       raw |-> raw])
                        /\ last_rain' = res.last_rain
                        /\ pc' = "idle"
                        /\ UNCHANGED exc
    /\ op' = "genLoopPackets"
    /\ UNCHANGED <<envVars, station, portVars, callVars, raw, cycles,
                   parseVars>>

\* the body of genLoopPackets' while loop after get_current has returned
LoopBody ==
    /\ mode = "driver" /\ pc = "ret"
    /\ IF ~Truthy(raw)
       THEN /\ pc' = "read"
            /\ UNCHANGED <<exc, loopVars>>
       ELSE LET data == parse_current(raw)
                res  == data_to_packet(data, last_rain)
            IN  /\ got' = Append(got, raw)
                /\ IF IsExc(data)
                   THEN /\ exc' = data.exc /\ pc' = "ended"
                        /\ UNCHANGED <<packets, last_rain>>
                   ELSE IF IsExc(res)
                   THEN /\ exc' = res.exc /\ pc' = "ended"
                        /\ UNCHANGED <<packets, last_rain>>
                   ELSE /\ packets' = Append(packets, [packet |-> res.pkt,
                                                       raw |-> raw])
                        /\ last_rain' = res.last_rain
                        /\ pc' = "idle"
                        /\ UNCHANGED exc
    /\ op' = "genLoopPackets"
    /\ UNCHANGED <<envVars, station, portVars, callVars, raw, cycles,
                   parseVars>>

\* a loop that catches what get_current raises and reads again
GenRaiseSwallowed ==
    /\ mode = "driver" /\ pc = "raise"
    /\ pc' = "read"
    /\ exc' = "none"
    /\ op' = "genLoopPackets"
    /\ UNCHANGED <<envVars, station, portVars, callVars, raw, cycles,
                   loopVars, parseVars>>

\* an exception of get_current leaves genLoopPackets, which handles none
GenRaise ==
    /\ mode = "driver" /\ pc = "raise"
    /\ pc' = "ended"
    /\ op' = "genLoopPackets"
    /\ UNCHANGED <<envVars, station, portVars, exc, callVars, raw, cycles,
                   loopVars, parseVars>>

(***************************************************************************)
(* DigiWXStation: get_current, get_data_with_retry, get_data.              *)
(***************************************************************************)
\* where get_current is called: the loops' read, or a caller of the method
CallSites == {<<"driver", "read">>, <<"main", "read">>, <<"api", "idle">>}

\* get_current() -> get_data_with_retry(): the for loop starts
get_current ==
    /\ <<mode, pc>> \in CallSites
    /\ cycles < MaxCycles
    /\ cycles' = cycles + 1
    /\ ntries' = 0 /\ attempts' = 0 /\ delays' = 0 /\ log' = <<>>
    /\ buf' = None
    /\ exc' = "none"
    /\ pc' = IF 0 < station.max_tries THEN "try" ELSE "else"
    /\ op' = "get_current"
    /\ UNCHANGED <<envVars, station, portVars, raw, loopVars, parseVars>>

\* the exceptions the except clause of get_data_with_retry names
TransportFaults == {"SerialException", "WeeWxIOError"}

\* what one readline() does: a line, or a fault the except clause names
ReadOutcomes ==
    {[line |-> w] : w \in WireLines} \cup {Exc(e) : e \in TransportFaults}

\* line 225: buf = self.get_data().  With serial_port unset,
\* None.readline() raises AttributeError, which the except clause does not
\* name
get_data ==
    /\ pc = "try"
    /\ attempts' = attempts + 1
    /\ IF serial_port = None
       THEN /\ exc' = "AttributeError" /\ pc' = "raise"
            /\ UNCHANGED buf
       ELSE \E out \in ReadOutcomes :
              IF IsExc(out)
              THEN /\ exc' = out.exc /\ pc' = "except"
                   /\ UNCHANGED buf
              ELSE /\ buf' = PyStr(strip(out.line)) /\ pc' = "got"
                   /\ UNCHANGED exc
    /\ op' = "get_data"
    /\ UNCHANGED <<envVars, station, portVars, ntries, delays, log, raw,
                   cycles, loopVars, parseVars>>

\* line 226: return buf, through get_current to its caller
ReturnBuf ==
    /\ pc = "got"
    /\ raw' = buf
    /\ pc' = "ret"
    /\ op' = "return"
    /\ UNCHANGED <<envVars, station, portVars, exc, callVars, cycles,
                   loopVars, parseVars>>

\* lines 227-229: the except clause logs the attempt
LogFailedAttempt ==
    /\ pc = "except"
    /\ log' = Append(log, [sev |-> "info", attempt |-> ntries + 1,
                           total |-> station.max_tries])
    /\ exc' = "none"
    /\ pc' = "sleep"
    /\ op' = "loginf"
    /\ UNCHANGED <<envVars, station, portVars, ntries, buf, attempts, delays,
                   raw, cycles, loopVars, parseVars>>

\* the loop running one item too far: range(0, max_tries + 1)
RetrySleepExtraTry ==
    /\ pc = "sleep"
    /\ delays' = delays + 1
    /\ ntries' = ntries + 1
    /\ pc' = IF ntries + 1 <= station.max_tries THEN "try" ELSE "else"
    /\ op' = "sleep"
    /\ UNCHANGED <<envVars, station, portVars, exc, buf, attempts, log, raw,
                   cycles, loopVars, parseVars>>

\* a backoff that sleeps once more on each further failure
RetrySleepBackoff ==
    /\ pc = "sleep"
    /\ delays' = delays + ntries + 1
    /\ ntries' = ntries + 1
    /\ pc' = IF ntries + 1 < station.max_tries THEN "try" ELSE "else"
    /\ op' = "sleep"
    /\ UNCHANGED <<envVars, station, portVars, exc, buf, attempts, log, raw,
                   cycles, loopVars, parseVars>>

\* no sleep after the last failed attempt
RetrySleepNotAfterLast ==
    /\ pc = "sleep"
    /\ delays' = IF ntries + 1 < station.max_tries THEN delays + 1 ELSE delays
    /\ ntries' = ntries + 1
    /\ pc' = IF ntries + 1 < station.max_tries THEN "try" ELSE "else"
    /\ op' = "sleep"
    /\ UNCHANGED <<envVars, station, portVars, exc, buf, attempts, log, raw,
                   cycles, loopVars, parseVars>>

\* line 230: time.sleep(self.retry_wait), then the for loop's next item
RetrySleep ==
    /\ pc = "sleep"
    /\ delays' = delays + 1
    /\ ntries' = ntries + 1
    /\ pc' = IF ntries + 1 < station.max_tries THEN "try" ELSE "else"
    /\ op' = "sleep"
    /\ UNCHANGED <<envVars, station, portVars, exc, buf, attempts, log, raw,
                   cycles, loopVars, parseVars>>

\* the module-global name cmd, which the module binds nowhere
g_cmd == Unbound

\* lines 231-235, the for loop's else clause: the message reads
\* self._max_tries, then the name cmd; logerr and the raise follow
RetriesElse ==
    /\ pc = "else"
    /\ LET n == getattr(station, "_max_tries")
       IN  IF IsExc(n)
           THEN /\ exc' = n.exc
                /\ UNCHANGED log
           ELSE IF g_cmd = Unbound
           THEN /\ exc' = "NameError"
                /\ UNCHANGED log
           ELSE /\ log' = Append(log, [sev |-> "error", attempt |-> n,
                                       total |-> n])
                /\ exc' = "RetriesExceeded"
    /\ pc' = "raise"
    /\ op' = "else"
    /\ UNCHANGED <<envVars, station, portVars, ntries, buf, attempts, delays,
                   raw, cycles, loopVars, parseVars>>

(***************************************************************************)
(* The __main__ block: with DigiWXStation(port) as s: while True: ...      *)
(***************************************************************************)
\* line 305: the constructor, then __enter__, which opens; an exception of
\* either leaves the with statement before its body and without __exit__
MainEnter ==
    /\ mode = "main" /\ pc = "start"
    /\ \E port \in Ports, ok \in OpenOutcomes :
         LET st == DigiWXStation(port)
         IN  IF IsExc(st)
             THEN /\ exc' = st.exc /\ pc' = "dead"
                  /\ UNCHANGED <<station, portVars>>
             ELSE /\ station' = st
                  /\ open(ok)
                  /\ exc' = IF ok THEN "none" ELSE "SerialException"
                  /\ pc' = IF ok THEN "read" ELSE "dead"
    /\ op' = "MainEnter"
    /\ UNCHANGED <<envVars, callVars, raw, cycles, loopVars, parseVars>>

\* lines 308-310: print raw, parse and print it, sleep 5 seconds
MainBody ==
    /\ mode = "main" /\ pc = "ret"
    /\ LET data == parse_current(raw)
       IN  IF IsExc(data)
           THEN exc' = data.exc /\ pc' = "raise"
           ELSE pc' = "read" /\ UNCHANGED exc
    /\ op' = "MainBody"
    /\ UNCHANGED <<envVars, station, portVars, callVars, raw, cycles,
                   loopVars, parseVars>>

\* an exception leaves the with body: __exit__ closes and returns None, so
\* the exception goes on
MainExit ==
    /\ mode = "main" /\ pc = "raise"
    /\ close
    /\ pc' = "done"
    /\ op' = "close"
    /\ UNCHANGED <<envVars, station, exc, callVars, raw, cycles, loopVars,
                   parseVars>>

(***************************************************************************)
(* A caller of the station's methods, one call at a time.                  *)
(***************************************************************************)
StationInit ==
    /\ mode = "api" /\ pc = "start"
    /\ \E port \in Ports :
         LET st == DigiWXStation(port)
         IN  IF IsExc(st)
             THEN exc' = st.exc /\ pc' = "dead" /\ UNCHANGED station
             ELSE station' = st /\ pc' = "idle" /\ UNCHANGED exc
    /\ op' = "StationInit"
    /\ UNCHANGED <<envVars, portVars, callVars, raw, cycles, loopVars,
                   parseVars>>

ApiOpen ==
    /\ mode = "api" /\ pc = "idle"
    /\ \E ok \in OpenOutcomes :
         /\ open(ok)
         /\ exc' = IF ok THEN "none" ELSE "SerialException"
    /\ op' = "open"
    /\ UNCHANGED <<envVars, station, pc, callVars, raw, cycles, loopVars,
                   parseVars>>

ApiClose ==
    /\ mode = "api" /\ pc = "idle"
    /\ close
    /\ exc' = "none"
    /\ op' = "close"
    /\ UNCHANGED <<envVars, station, pc, callVars, raw, cycles, loopVars,
                   parseVars>>

\* get_current has returned or raised to the caller
ApiReturn ==
    /\ mode = "api" /\ pc \in {"ret", "raise"}
    /\ pc' = "idle"
    /\ op' = "returned"
    /\ UNCHANGED <<envVars, station, portVars, exc, callVars, raw, cycles,
                   loopVars, parseVars>>

\* parse_current is a staticmethod: it needs no station
ParseCall ==
    /\ mode = "parse" /\ pc = "start"
    /\ \E s \in ParseLines :
         /\ parse_arg' = s
         /\ parsed' = parse_current(s)
    /\ pc' = "done"
    /\ op' = "parse_current"
    /\ UNCHANGED <<envVars, station, portVars, exc, callVars, raw, cycles,
                   loopVars>>

Next ==
    \/ DriverInit \/ closePort \/ GenNext \/ LoopBody \/ GenRaise
    \/ get_current \/ get_data \/ ReturnBuf \/ LogFailedAttempt
    \/ RetrySleep \/ RetriesElse
    \/ MainEnter \/ MainBody \/ MainExit
    \/ StationInit \/ ApiOpen \/ ApiClose \/ ApiReturn
    \/ ParseCall

Spec == Init /\ [][Next]_vars

\* the code is sequential: a call of get_data_with_retry that has started
\* goes on until it returns or raises (readline is bounded by its timeout)
RetrySteps ==
    get_data \/ ReturnBuf \/ LogFailedAttempt \/ RetrySleep \/ RetriesElse
FairSpec == Spec /\ WF_vars(RetrySteps)

TypeOK ==
    /\ pc \in {"start", "dead", "idle", "read", "try", "got", "except",
               "sleep", "else", "ret", "raise", "ended", "done"}
    /\ ntries \in 0..(MaxTries + 1)
    /\ attempts \in 0..(MaxTries + 1)
    /\ delays \in 0..(MaxTries + 1)
    /\ cycles \in 0..MaxCycles
    /\ nopened \in 0..MaxHandles

(***************************************************************************)
(* Properties.                                                             *)
(***************************************************************************)
\* a get_data_with_retry call is running
InCall == pc \in {"try", "got", "except", "sleep", "else"}
\* a get_data_with_retry call has returned, or an exception has left it
CallOver == pc \in {"ret", "raise"}

\* C1: one call of get_data_with_retry invokes get_data at most max_tries
\* times; it returns what the first invocation without a transport fault
\* returned (every earlier invocation failed), and after that success it
\* invokes and delays no more; and a call that has started returns or
\* raises.
C1_BoundedRetry ==
    /\ [](InCall \/ CallOver => attempts <= station.max_tries)
    /\ [](pc = "ret" => raw = buf /\ attempts = ntries + 1)
    /\ [][pc = "got" => /\ pc' = "ret" /\ raw' = buf
                        /\ attempts' = attempts /\ delays' = delays]_vars
    /\ (InCall ~> CallOver)
\* a call that returned the third attempt's line after two faults
C1_Witness ==
    /\ pc = "ret" /\ station # None /\ station.max_tries = 3
    /\ attempts = 3 /\ Truthy(raw)

\* C2: when every attempt raised a transport fault, the call fails with
\* weewx.RetriesExceeded after exactly max_tries attempts, the logged and
\* raised message naming the configured attempt count.
C2_RetriesExceeded ==
    (pc = "raise" /\ op = "else" /\ attempts >= 1)
        => /\ exc = "RetriesExceeded"
           /\ attempts = station.max_tries
           /\ log[Len(log)].total = station.max_tries

\* C3: DigiWXStation(port) succeeds with serial_port unset, baud rate
\* 19200, timeout 3 and defined max_tries and retry_wait; DigiWXDriver
\* then holds an open connection and an unset last_rain (unless the port
\* itself cannot be opened).
C3_Construct ==
    /\ op = "StationInit"
         => /\ exc = "none" /\ station # None /\ serial_port = None
            /\ station.baudrate = 19200 /\ station.timeout = 3
            /\ {"max_tries", "retry_wait"} \subseteq DOMAIN station
    /\ (op = "DriverInit" /\ exc # "SerialException")
         => /\ exc = "none" /\ serial_port # None /\ last_rain = None

\* C4: parse_current returns a record for every line, with an absent field
\* for every consumed index at or beyond the token count.
C4_ParseTotal ==
    op = "parse_current"
        => /\ ~IsExc(parsed)
           /\ Len(split(parse_arg.s, ",")) <= 21 => parsed.dewpoint = None
           /\ Len(split(parse_arg.s, ",")) <= 8 => parsed.pressure = None
           /\ Len(split(parse_arg.s, ",")) <= 1 => parsed.temperature = None

\* a non-empty line of 53 comma-separated fields
WellFormed(line) == Truthy(line) /\ Len(split(line.s, ",")) = 53
\* the lines the yielded packets were built from, in order
PacketLines == [i \in 1..Len(packets) |-> packets[i].raw]

\* C5: between reads, genLoopPackets has yielded one packet for every
\* well-formed 53-field line get_current returned, in the order read.
C5_PacketPerLine ==
    (mode = "driver" /\ pc \in {"idle", "read", "ended"})
        => PacketLines = SelectSeq(got, WellFormed)

\* C6: an empty read is returned at once, without a further attempt or a
\* delay, and genLoopPackets then yields nothing, raises nothing and goes
\* on to the next read.
C6_EmptyRead ==
    [][/\ (pc = "got" /\ buf = PyStr(<<>>))
           => /\ pc' = "ret" /\ raw' = buf
              /\ attempts' = attempts /\ delays' = delays
       /\ (mode = "driver" /\ pc = "ret" /\ raw = PyStr(<<>>))
           => /\ pc' = "read" /\ exc' = "none"
              /\ UNCHANGED <<packets, last_rain, got>>]_vars
\* the driver back at its read after a first attempt came back empty
C6_Witness ==
    /\ mode = "driver" /\ pc = "read" /\ op = "genLoopPackets"
    /\ raw = PyStr(<<>>) /\ attempts = 1 /\ delays = 0 /\ exc = "none"
    /\ packets = <<>>

\* C7: a call that returns after k transport faults has made exactly k
\* delays, each one after a failed attempt and before the next attempt.
C7_DelaysBeforeSuccess ==
    /\ [](pc \in {"got", "ret"} => delays = attempts - 1)
    /\ [][delays' # delays /\ InCall
            => /\ delays' = delays + 1
               /\ pc = "sleep" /\ delays = attempts - 1
               /\ pc' \in {"try", "else"} /\ attempts' = attempts]_vars
\* max_tries = 3, two faults, then a line: two delays
C7_Witness ==
    /\ pc = "ret" /\ station # None /\ station.max_tries = 3
    /\ attempts = 3 /\ delays = 2 /\ Len(log) = 2 /\ Truthy(raw)

\* C8 as claimed: when all max_tries attempts failed, the call has made
\* max_tries - 1 delays.
C8_Original ==
    (pc = "else" /\ attempts >= 1) => delays = station.max_tries - 1
\* C8: when all max_tries attempts failed, the call has made exactly
\* max_tries delays, one after every failed attempt, the last included.
C8_DelayAfterEveryFailure ==
    (pc = "else" \/ (pc = "raise" /\ op = "else"))
        => /\ attempts = station.max_tries
           /\ delays = station.max_tries
\* max_tries = 3 and three faults: three delays, then the failure
C8_Witness ==
    /\ pc = "raise" /\ op = "else" /\ station.max_tries = 3
    /\ attempts = 3 /\ delays = 3

\* C9: when a polling loop has ended, the station's serial port is closed.
C9_ReleasedOnExit ==
    pc \in {"ended", "done"} => serial_port = None

\* C10: close() on a closed connection changes nothing and raises nothing;
\* after close() serial_port is unset; no handle is closed twice.
C10_CloseIdempotent ==
    /\ [][op' = "close"
            => /\ serial_port' = None
               /\ exc' \in {"none", exc}
               /\ serial_port = None => UNCHANGED <<serial_port, nopened,
                                                    closes, station>>]_vars
    /\ [](\A h \in 1..MaxHandles : closes[h] <= 1)
\* a close() that found the connection closed, a handle closed before it
C10_Witness ==
    /\ mode = "api" /\ op = "close" /\ port_before = None
    /\ nopened = 1 /\ closes[1] = 1 /\ serial_port = None

\* C11: the failure get_current raises in genLoopPackets when its retries
\* are exhausted leaves genLoopPackets unchanged, with no packet yielded,
\* and the ended loop reads no more.
C11_ExhaustionPropagates ==
    /\ [][(mode = "driver" /\ pc = "raise" /\ op = "else")
            => /\ pc' = "ended" /\ exc # "none" /\ exc' = exc
               /\ packets' = packets /\ cycles' = cycles]_vars
    /\ [][pc = "ended"
            => /\ pc' = "ended" /\ exc' = exc
               /\ packets' = packets /\ cycles' = cycles]_vars
\* the driver's loop ended by the failure of a call whose three attempts
\* all raised transport faults
C11_Witness ==
    /\ mode = "driver" /\ pc = "ended" /\ exc # "none"
    /\ station.max_tries = 3 /\ attempts = 3 /\ Len(log) = 3
    /\ packets = <<>>

\* the token at index i of the line last given to parse_current
TokenAt(i) == split(parse_arg.s, ",")[i + 1]
\* v is absent exactly when the conversion failed, and is its value otherwise
AbsentIffFailed(v, converted) ==
    /\ v = None <=> converted = ValueError
    /\ v # None => v = converted

\* C12: for a line with enough tokens, each of the six fields is absent
\* if and only if int() (float() for pressure) fails on the token at the
\* field's own index, and is that token's value otherwise, whatever the
\* other tokens are.
C12_FieldsIndependent ==
    (op = "parse_current" /\ ~IsExc(parsed))
        => /\ AbsentIffFailed(parsed.temperature, int(TokenAt(1)))
           /\ AbsentIffFailed(parsed.dewpoint, int(TokenAt(21)))
           /\ AbsentIffFailed(parsed.humidity, int(TokenAt(3)))
           /\ AbsentIffFailed(parsed.wind_dir, int(TokenAt(4)))
           /\ AbsentIffFailed(parsed.wind_speed, int(TokenAt(5)))
           /\ AbsentIffFailed(parsed.pressure, float(TokenAt(8)))
\* a line whose pressure token alone is not a number
C12_Witness ==
    /\ op = "parse_current" /\ ~IsExc(parsed)
    /\ TokenAt(8) = <<"N", "A">> /\ parsed.pressure = None
    /\ parsed.temperature = PyInt(-4) /\ parsed.dewpoint = PyInt(-13)
    /\ parsed.humidity = PyInt(53) /\ parsed.wind_dir = PyInt(290)
    /\ parsed.wind_speed = PyInt(0)

\* what a conversion leaves in a field
FieldOf(converted) == IF converted = ValueError THEN None ELSE converted
\* the record of the docstring's second sample
SampleRecord ==
    [temperature |-> PyInt(-4), dewpoint |-> None, humidity |-> PyInt(53),
     wind_dir |-> PyInt(290), wind_speed |-> PyInt(0),
     pressure |-> PyFloat(3007, -2)]
\* the last line parsed has 53 fields
Parsed53 ==
    op = "parse_current" /\ Len(split(parse_arg.s, ",")) = 53

C14_DewpointField2 ==
    (op = "parse_current" /\ ~IsExc(parsed) /\ int(TokenAt(2)) # ValueError)
        => parsed.dewpoint = int(TokenAt(2))

\* C15: the driver invokes get_data only while serial_port holds a handle.
C15_NeverReadClosed ==
    (mode = "driver" /\ op = "get_data") => serial_port # None

C17_Logged ==
    /\ pc = "sleep"
         => log[Len(log)] = [sev |-> "info", attempt |-> ntries + 1,
                             total |-> station.max_tries]
    /\ (pc = "raise" /\ op = "else" /\ attempts >= 1)
         => /\ log[Len(log)].sev = "error"
            /\ log[Len(log)].attempt = station.max_tries

\* the record of the last line genLoopPackets took, and the last packet
LastRecord == parse_current(got[Len(got)])
LastPacket == packets[Len(packets)].packet

\* C18: the packet built from a parsed record carries the record's wind
\* direction, wind speed, humidity, pressure and temperature as windDir,
\* windSpeed, outHumidity, pressure and outTemp, unset exactly when absent.
C18_PacketFields ==
    (mode = "driver" /\ op = "genLoopPackets" /\ pc \in {"idle", "ended"}
       /\ got # <<>> /\ ~IsExc(LastRecord))
        => /\ packets # <<>>
           /\ LastPacket.windDir = LastRecord.wind_dir
           /\ LastPacket.windSpeed = LastRecord.wind_speed
           /\ LastPacket.outHumidity = LastRecord.humidity
           /\ LastPacket.pressure = LastRecord.pressure
           /\ LastPacket.outTemp = LastRecord.temperature

=============================================================================
